---- MODULE Spec2Model ----
(***************************************************************************)
(* Note-taking backend: the note store (routes/note.py over models/note.py)*)
(* and the auth gateway (routes/auth.py).  Strings are sequences of one-   *)
(* character strings so that trimming, joining, splitting and SQL LIKE     *)
(* matching are computed, not assumed.                                     *)
(***************************************************************************)
EXTENDS Integers, Sequences, FiniteSets, TLC

VARIABLES notes, now, last, users, pending, caps, reply

vars == <<notes, now, last, users, pending, caps, reply>>

authVars == <<users, pending, caps, reply>>

(* ------------------------------- bounds -------------------------------- *)
MaxNotes == 2
MaxClock == 2
MaxPending == 2

(* --------------------------- string helpers ---------------------------- *)
\* str.lower() on the characters the model uses
LowerChar(c) ==
  CASE c = "A" -> "a"
    [] c = "B" -> "b"
    [] c = "N" -> "n"
    [] OTHER -> c

Lower(s) == [i \in DOMAIN s |-> LowerChar(s[i])]

RECURSIVE LStrip(_)
LStrip(s) == IF s # <<>> /\ Head(s) = " " THEN LStrip(Tail(s)) ELSE s

RECURSIVE RStrip(_)
RStrip(s) ==
  IF s # <<>> /\ s[Len(s)] = " " THEN RStrip(SubSeq(s, 1, Len(s) - 1)) ELSE s

\* str.strip()
Strip(s) == RStrip(LStrip(s))

\* sep.join(parts) with sep = ","
RECURSIVE Join(_)
Join(parts) ==
  IF parts = <<>> THEN <<>>
  ELSE IF Len(parts) = 1 THEN parts[1]
  ELSE parts[1] \o <<",">> \o Join(Tail(parts))

\* s.split(','): the pieces between commas, empty pieces kept
RECURSIVE SplitFrom(_, _)
SplitFrom(s, cur) ==
  IF s = <<>> THEN <<cur>>
  ELSE IF Head(s) = "," THEN <<cur>> \o SplitFrom(Tail(s), <<>>)
  ELSE SplitFrom(Tail(s), Append(cur, Head(s)))

Split(s) == SplitFrom(s, <<>>)

\* SQL LIKE: % matches any run of characters, _ exactly one character
RECURSIVE Like(_, _)
Like(s, p) ==
  IF p = <<>> THEN s = <<>>
  ELSE IF Head(p) = "%"
    THEN Like(s, Tail(p)) \/ (s # <<>> /\ Like(Tail(s), p))
  ELSE s # <<>> /\ (Head(p) = "_" \/ Head(p) = Head(s)) /\ Like(Tail(s), Tail(p))

\* column.ilike(pattern): LIKE on the lower-cased operands
ILike(s, p) == Like(Lower(s), Lower(p))

(* ----------------------------- JSON values ----------------------------- *)
JNull == [t |-> "null", s |-> <<>>, l |-> <<>>]
JStr(s) == [t |-> "str", s |-> s, l |-> <<>>]
JList(l) == [t |-> "list", s |-> <<>>, l |-> l]

\* str(v) for a JSON scalar
Str(v) == IF v.t = "null" THEN <<"N", "o", "n", "e">> ELSE v.s

\* [str(t).strip() for t in tags if t is not None]
RECURSIVE StripAll(_)
StripAll(l) ==
  IF l = <<>> THEN <<>>
  ELSE IF Head(l).t = "null" THEN StripAll(Tail(l))
  ELSE <<Strip(Str(Head(l)))>> \o StripAll(Tail(l))

\* the tags normalisation shared by create_note and update_note
NormalizeTags(tags) ==
  IF tags.t = "list" THEN Join(StripAll(tags.l)) ELSE Strip(Str(tags))

(* ---------------------------- request bodies --------------------------- *)
\* request.json: raises (no parseable JSON body), or yields null, a JSON
\* object (a function from its keys) or a JSON array of strings
RaiseBody == [k |-> "raise", d |-> <<>>, l |-> <<>>]
NullBody == [k |-> "null", d |-> <<>>, l |-> <<>>]
DictBody(d) == [k |-> "dict", d |-> d, l |-> <<>>]
ListBody(l) == [k |-> "list", d |-> <<>>, l |-> l]

\* Python truthiness of the parsed body: None, {} and [] are falsy
Truthy(data) ==
  CASE data.k = "dict" -> DOMAIN data.d # {}
    [] data.k = "list" -> data.l # <<>>
    [] OTHER -> FALSE

\* key in data: a key of the object, or an element of the array
Has(data, key) ==
  CASE data.k = "dict" -> key \in DOMAIN data.d
    [] data.k = "list" -> \E i \in DOMAIN data.l : data.l[i] = key
    [] OTHER -> FALSE

\* faulty variant of Get: an absent key yields '' instead of the default
GetOrEmpty(data, key, default) ==
  IF key \in DOMAIN data.d THEN data.d[key] ELSE JStr(<<>>)

\* data.get(key, default) on a JSON object
Get(data, key, default) ==
  IF key \in DOMAIN data.d THEN data.d[key] ELSE default

NoQuery == [tag |-> <<>>, tags |-> JNull]

Ids == 1 .. MaxNotes

Reply(op, id, body, status) ==
  [op |-> op, id |-> id, body |-> body, query |-> NoQuery,
   status |-> status, time |-> now, result |-> <<>>]

(* ------------------------------ note store ----------------------------- *)
\* Note(title=..., content=..., tags=...) with both timestamp defaults
NewNote(title, content, tags, created, updated) ==
  [title |-> title, content |-> content, tags |-> tags,
   created_at |-> created, updated_at |-> updated]

\* faulty variant of NotNull: the columns are nullable
NullAccepted(v) == TRUE

\* nullable=False on title and content: the commit raises IntegrityError
\* for a null value
NotNull(v) == v.t # "null"

\* faulty variant of OnUpdate: updated_at is stamped on every commit
OnUpdateAlways(old, new, t) == [new EXCEPT !.updated_at = t]

\* faulty variant of OnUpdate: created_at carries the onupdate hook as well
OnUpdateBoth(old, new, t) ==
  IF new # old THEN [new EXCEPT !.updated_at = t, !.created_at = t] ELSE new

\* Column(onupdate=datetime.utcnow): applied when the flush emits an UPDATE,
\* which it does only when some column has a net change
OnUpdate(old, new, t) ==
  IF new # old THEN [new EXCEPT !.updated_at = t] ELSE new

\* Note.query.get_or_404(note_id) inside try/except Exception: the NotFound
\* it raises is an Exception, so the handler's except clause answers it
NotFoundInTry == 500

\* the time a handler observes; the clock never runs backwards
Tick ==
  /\ now < MaxClock
  /\ now' = now + 1
  /\ UNCHANGED <<notes, last>>
  /\ UNCHANGED authVars

\* t2 is the clock as the updated_at default reads it, after the created_at
\* default has read `now`
create_note(data, t2) ==
  /\ UNCHANGED authVars
  /\ IF data.k = "raise"
       THEN /\ last' = Reply("create", 0, data, 500)
            /\ UNCHANGED <<notes, now>>
     ELSE IF ~Truthy(data) \/ ~Has(data, "title") \/ ~Has(data, "content")
       THEN /\ last' = Reply("create", 0, data, 400)
            /\ UNCHANGED <<notes, now>>
     ELSE IF data.k # "dict"
       THEN /\ last' = Reply("create", 0, data, 500)
            /\ UNCHANGED <<notes, now>>
     ELSE LET tags == NormalizeTags(Get(data, "tags", JStr(<<>>)))
          IN IF ~NotNull(data.d["title"]) \/ ~NotNull(data.d["content"])
               THEN /\ last' = Reply("create", 0, data, 500)
                    /\ UNCHANGED <<notes, now>>
             ELSE \E id \in Ids \ DOMAIN notes :
                    /\ notes' = notes @@ (id :> NewNote(data.d["title"],
                                   data.d["content"], tags, now, t2))
                    /\ now' = t2
                    /\ last' = [Reply("create", id, data, 201) EXCEPT !.time = t2]

get_note(id) ==
  /\ last' = Reply("get", id, NullBody, IF id \in DOMAIN notes THEN 200 ELSE 404)
  /\ UNCHANGED <<notes, now>>
  /\ UNCHANGED authVars

update_note(id, data) ==
  /\ UNCHANGED now
  /\ UNCHANGED authVars
  /\ IF id \notin DOMAIN notes
       THEN /\ last' = Reply("update", id, data, NotFoundInTry)
            /\ UNCHANGED notes
     ELSE IF data.k = "raise"
       THEN /\ last' = Reply("update", id, data, 500)
            /\ UNCHANGED notes
     ELSE IF ~Truthy(data)
       THEN /\ last' = Reply("update", id, data, 400)
            /\ UNCHANGED notes
     ELSE IF data.k # "dict"
       THEN /\ last' = Reply("update", id, data, 500)
            /\ UNCHANGED notes
     ELSE LET old == notes[id]
              title == Get(data, "title", old.title)
              content == Get(data, "content", old.content)
              tags == IF "tags" \in DOMAIN data.d
                        THEN NormalizeTags(data.d["tags"]) ELSE old.tags
          IN IF ~NotNull(title) \/ ~NotNull(content)
               THEN /\ last' = Reply("update", id, data, 500)
                    /\ UNCHANGED notes
             ELSE /\ notes' = [notes EXCEPT ![id] =
                       OnUpdate(old, [old EXCEPT !.title = title,
                                      !.content = content, !.tags = tags], now)]
                  /\ last' = Reply("update", id, data, 200)

delete_note(id) ==
  /\ UNCHANGED now
  /\ UNCHANGED authVars
  /\ IF id \notin DOMAIN notes
       THEN /\ last' = Reply("delete", id, NullBody, NotFoundInTry)
            /\ UNCHANGED notes
     ELSE /\ notes' = [i \in DOMAIN notes \ {id} |-> notes[i]]
          /\ last' = Reply("delete", id, NullBody, 204)

(* ---------------------------- filter by tags --------------------------- *)
\* [t.strip() for t in xs if t and t.strip()]
RECURSIVE StripNonEmpty(_)
StripNonEmpty(xs) ==
  IF xs = <<>> THEN <<>>
  ELSE IF Strip(Head(xs)) = <<>> THEN StripNonEmpty(Tail(xs))
  ELSE <<Strip(Head(xs))>> \o StripNonEmpty(Tail(xs))

\* the values of the repeated 'tag' parameter, then the pieces of 'tags'
Requested(q) ==
  StripNonEmpty(q.tag)
    \o (IF q.tags.t = "str" /\ q.tags.s # <<>>
          THEN StripNonEmpty(Split(q.tags.s)) ELSE <<>>)

\* the dedupe loop: keep t when t.lower() was not seen before
RECURSIVE Dedupe(_, _)
Dedupe(req, seen) ==
  IF req = <<>> THEN <<>>
  ELSE IF Lower(Head(req)) \in seen THEN Dedupe(Tail(req), seen)
  ELSE <<Head(req)>> \o Dedupe(Tail(req), seen \cup {Lower(Head(req))})

\* or_(*[Note.tags.ilike(f"%{t}%") for t in tags])
Matches(note, tags) ==
  \E i \in DOMAIN tags : ILike(note.tags, <<"%">> \o tags[i] \o <<"%">>)

\* order_by(Note.updated_at.desc()).all(): any order of the rows in which
\* updated_at never increases (rows with equal updated_at in either order)
OrderByUpdatedDesc(S) ==
  {r \in [1 .. Cardinality(S) -> S] :
     /\ \A i, j \in DOMAIN r : i # j => r[i] # r[j]
     /\ \A i, j \in DOMAIN r :
          i < j => notes[r[i]].updated_at >= notes[r[j]].updated_at}

filter_notes_by_tags(q) ==
  /\ UNCHANGED <<notes, now>>
  /\ UNCHANGED authVars
  /\ LET tags == Dedupe(Requested(q), {})
     IN IF tags = <<>>
          THEN last' = [Reply("filter", 0, NullBody, 200) EXCEPT !.query = q]
        ELSE \E r \in OrderByUpdatedDesc(
                  {id \in DOMAIN notes : Matches(notes[id], tags)}) :
               last' = [Reply("filter", 0, NullBody, 200)
                          EXCEPT !.query = q, !.result = r]

(* ----------------------------- auth gateway ---------------------------- *)
\* a JSON number: a truthy value that is not a string
JNum == [t |-> "num", s |-> <<>>, l |-> <<>>]

\* Python falsiness of a request field: None and ''
Falsy(v) == v.t = "null" \/ (v.t = "str" /\ v.s = <<>>)

AuthReply(op, req, status, error, detail) ==
  [op |-> op, req |-> req, status |-> status, error |-> error, detail |-> detail]

NoReply ==
  AuthReply("none", [username |-> JNull, email |-> JNull, password |-> JNull],
            0, "", FALSE)

\* User.email == email: a comparison with None is rendered as IS NULL
EmailEq(column, email) ==
  IF email.t = "null" THEN column.t = "null" ELSE column = email

\* faulty variant of Existing: the username test is left out
ExistingByEmailOnly(u, username, email) == EmailEq(u.email, email)

\* (User.username == username) | (User.email == email)
Existing(u, username, email) ==
  u.username = username \/ EmailEq(u.email, email)

\* generate_password_hash / check_password_hash: hashing a value that is not
\* a string raises
Hashable(password) == password.t = "str"

\* the user table's unique constraint on username, enforced at commit
UsernameTaken(username) == \E u \in users : u.username = username

Slots == 1 .. MaxPending

FreeSlot == CHOOSE n \in Slots : n \notin {p.slot : p \in pending}
              /\ \A m \in Slots : m < n => m \in {p.slot : p \in pending}

\* register up to the uniqueness query: validation, then the query
register_check(req) ==
  /\ UNCHANGED <<notes, now, last, users, caps>>
  /\ IF Falsy(req.username) \/ Falsy(req.password)
       THEN /\ reply' = AuthReply("register", req, 400,
                                  "username and password are required", FALSE)
            /\ UNCHANGED pending
     ELSE IF \E u \in users : Existing(u, req.username, req.email)
       THEN /\ reply' = AuthReply("register", req, 400,
                 "User with that username or email already exists", FALSE)
            /\ UNCHANGED pending
     ELSE /\ Cardinality(pending) < MaxPending
          /\ pending' = pending \cup {[slot |-> FreeSlot, req |-> req]}
          /\ UNCHANGED reply

\* register from the construction of the user to the commit
register_commit(p) ==
  /\ UNCHANGED <<notes, now, last, caps>>
  /\ pending' = pending \ {p}
  /\ IF ~Hashable(p.req.password) \/ UsernameTaken(p.req.username)
       THEN /\ reply' = AuthReply("register", p.req, 500,
                                  "Failed to create user", TRUE)
            /\ UNCHANGED users
     ELSE /\ users' = users \cup {[username |-> p.req.username,
                                   email |-> p.req.email,
                                   secret |-> p.req.password]}
          /\ reply' = AuthReply("register", p.req, 201, "User created", FALSE)

\* the users found by the username field, else those found by the email field
Lookup(identifier) ==
  LET byName == {u \in users : u.username = identifier}
  IN IF byName # {} THEN byName ELSE {u \in users : u.email = identifier}

\* the first verification strategy the user model offers
Strategy ==
  CASE "check_password" \in caps -> "check_password"
    [] "password_hash" \in caps -> "password_hash"
    [] "password" \in caps -> "password"
    [] OTHER -> "none"

\* the outcome of the chosen strategy: "raise", or whether the password fits
Verify(u, password) ==
  IF Strategy \in {"check_password", "password_hash"} /\ ~Hashable(password)
    THEN "raise"
  ELSE IF u.secret = password THEN "valid" ELSE "invalid"

\* the reply when no user matches the identifier
UserNotFound(req) ==
  AuthReply("login", req, 401, "Invalid credentials", FALSE)

\* faulty variant of BadPassword: the rejection carries a detail field
BadPasswordWithDetail(req) ==
  AuthReply("login", req, 401, "Invalid credentials", TRUE)

\* the reply when the chosen strategy rejects the password
BadPassword(req) ==
  AuthReply("login", req, 401, "Invalid credentials", FALSE)

login(req) ==
  /\ UNCHANGED <<notes, now, last, users, pending, caps>>
  /\ IF Falsy(req.username) \/ Falsy(req.password)
       THEN reply' = AuthReply("login", req, 400,
                               "username and password are required", FALSE)
     ELSE IF Lookup(req.username) = {}
       THEN reply' = UserNotFound(req)
     ELSE \E u \in Lookup(req.username) :
            IF Strategy = "none"
              THEN reply' = AuthReply("login", req, 500,
                     "No password verifier available for User model", FALSE)
            ELSE IF Verify(u, req.password) = "raise"
              THEN reply' = AuthReply("login", req, 500, "Authentication failed", TRUE)
            ELSE IF Verify(u, req.password) = "invalid"
              THEN reply' = BadPassword(req)
            ELSE reply' = AuthReply("login", req, 200, "Login successful", FALSE)


(* ------------------------------- inputs -------------------------------- *)
\* the JSON objects whose keys are among DOMAIN vals, the value of key k
\* drawn from vals[k]
Dicts(vals) ==
  UNION {{d \in [K -> UNION {vals[k] : k \in K}] : \A k \in K : d[k] \in vals[k]} :
           K \in SUBSET DOMAIN vals}

NonDicts ==
  {RaiseBody, NullBody, ListBody(<<>>), ListBody(<<"title", "content">>)}

ValuesOf ==
  [title |-> {JNull, JStr(<<>>), JStr(<<"t">>)},
   content |-> {JNull, JStr(<<>>), JStr(<<"c">>)},
   tags |-> {JStr(<<" ", "a", " ">>)}]

Bodies == NonDicts \cup {DictBody(d) : d \in Dicts(ValuesOf)}

TimeValuesOf ==
  [title |-> {JStr(<<>>), JStr(<<"t">>)}, content |-> {JStr(<<"c">>)}]

TimeBodies == {DictBody(d) : d \in Dicts(TimeValuesOf)}

TagBodies ==
  {DictBody(d) : d \in
     {[title |-> JStr(<<"t">>), content |-> JStr(<<"c">>)]}
       \cup {[title |-> JStr(<<"t">>), content |-> JStr(<<"c">>), tags |-> v] :
               v \in {JNull, JStr(<<"a", "b">>),
                      JList(<<JStr(<<"a">>), JStr(<<" ", "b", " ">>), JNull,
                              JStr(<<"a">>)>>)}}}

\* request.args: the values of the repeated 'tag' parameter, and the first
\* 'tags' parameter (null when there is none)
Queries ==
  {[tag |-> tg, tags |-> ts] :
     tg \in {<<>>, <<<<"B">>, <<"b">>>>, <<<<"_">>>>, <<<<" ">>>>},
     ts \in {JNull, JStr(<<>>), JStr(<<"o", ",", " ", ",", "O">>)}}


Usernames == {JNull, JStr(<<"a">>), JStr(<<"b">>)}
Emails == {JNull, JStr(<<"b">>)}
Passwords == {JNull, JStr(<<"p">>), JNum}
LoginPasswords == Passwords \cup {JStr(<<"q">>)}

RegisterReqs == [username : Usernames, email : Emails, password : Passwords]
LoginReqs == [username : Usernames, email : {JNull}, password : LoginPasswords]

Capabilities == {"check_password", "password_hash", "password"}

(* ---------------------------- specifications --------------------------- *)
Init ==
  /\ notes = <<>>
  /\ now = 0
  /\ last = Reply("none", 0, NullBody, 0)
  /\ users = {}
  /\ pending = {}
  /\ caps = {}
  /\ reply = NoReply

\* the note store's requests, all served within one reading of the clock
Next ==
  \/ \E data \in Bodies : create_note(data, now)
  \/ \E id \in Ids : get_note(id)
  \/ \E id \in Ids, data \in Bodies : update_note(id, data)
  \/ \E id \in Ids : delete_note(id)

Spec == Init /\ [][Next]_vars

\* the note store's requests while the clock runs
NextTime ==
  \/ Tick
  \/ \E data \in TimeBodies, t2 \in now .. MaxClock : create_note(data, t2)
  \/ \E id \in Ids : get_note(id)
  \/ \E id \in Ids, data \in TimeBodies : update_note(id, data)
  \/ \E id \in Ids : delete_note(id)

SpecTime == Init /\ [][NextTime]_vars

\* creating, deleting and filtering notes by tag
NextTags ==
  \/ Tick
  \/ \E data \in TagBodies : create_note(data, now)
  \/ \E id \in Ids : delete_note(id)
  \/ \E q \in Queries : filter_notes_by_tags(q)

SpecTags == Init /\ [][NextTags]_vars

\* Register requests, interleaving at the database: a request's uniqueness
\* query and its commit are separate steps
NextRegister ==
  \/ \E req \in RegisterReqs : register_check(req)
  \/ \E p \in pending : register_commit(p)

SpecRegister == Init /\ [][NextRegister]_vars

\* Register and Login, for every set of verification capabilities the user
\* model may offer
InitLogin ==
  /\ notes = <<>>
  /\ now = 0
  /\ last = Reply("none", 0, NullBody, 0)
  /\ users = {}
  /\ pending = {}
  /\ caps \in SUBSET Capabilities
  /\ reply = NoReply

NextLogin ==
  \/ \E req \in RegisterReqs : register_check(req)
  \/ \E p \in pending : register_commit(p)
  \/ \E req \in LoginReqs : login(req)

SpecLogin == InitLogin /\ [][NextLogin]_vars

(* ------------------------- note store: properties ---------------------- *)
\* title or content is absent from the request (no JSON object, or an
\* object without one of the two keys)
TitleOrContentAbsent(data) ==
  data.k # "dict" \/ "title" \notin DOMAIN data.d \/ "content" \notin DOMAIN data.d

\* C1: Get, Update and Delete on an id that is not in the store answer 404
\* and leave the store unchanged.
C1_UnknownIdIs404 ==
  [][LET id == last'.id
     IN (/\ id \notin DOMAIN notes
         /\ \/ get_note(id)
            \/ delete_note(id)
            \/ update_note(id, last'.body))
       => (last'.status = 404 /\ notes' = notes)]_vars

\* C2: a Create whose request lacks title or content answers 400 (never 201
\* or 500) and adds no note.
C2_MissingFieldIs400 ==
  [][LET data == last'.body
     IN (last'.op = "create" /\ create_note(data, now) /\ TitleOrContentAbsent(data))
       => (last'.status = 400 /\ notes' = notes)]_vars

\* C7: a successful Update overwrites exactly the fields present in the body
\* (tags in normalised form), keeps the absent ones, keeps the note's id and
\* created_at, and leaves every other note unchanged.
C7_UpdateFrame ==
  [][LET id == last'.id
         data == last'.body
     IN (last'.op = "update" /\ last'.status = 200 /\ update_note(id, data))
       => /\ DOMAIN notes' = DOMAIN notes
          /\ \A j \in DOMAIN notes \ {id} : notes'[j] = notes[j]
          /\ notes'[id].created_at = notes[id].created_at
          /\ notes'[id].title =
               IF "title" \in DOMAIN data.d THEN data.d["title"] ELSE notes[id].title
          /\ notes'[id].content =
               IF "content" \in DOMAIN data.d
                 THEN data.d["content"] ELSE notes[id].content
          /\ notes'[id].tags =
               IF "tags" \in DOMAIN data.d
                 THEN NormalizeTags(data.d["tags"]) ELSE notes[id].tags]_vars

\* a title-only update of one of two stored notes has succeeded, and the
\* updated note still carries a non-empty content and non-empty tags
C7_Witness ==
  /\ last.op = "update" /\ last.status = 200
  /\ DOMAIN last.body.d = {"title"}
  /\ Cardinality(DOMAIN notes) = 2
  /\ notes[last.id].title = last.body.d["title"]
  /\ notes[last.id].content = JStr(<<"c">>)
  /\ notes[last.id].tags = <<"a">>

\* C9 as stated: every stored note has a non-empty title and content.
C9_NonEmpty ==
  \A id \in DOMAIN notes :
    /\ notes[id].title.t = "str" /\ notes[id].title.s # <<>>
    /\ notes[id].content.t = "str" /\ notes[id].content.s # <<>>

\* C9 amended: every stored note has a title and a content that are not
\* null; either may be the empty string.
C9_NotNull ==
  \A id \in DOMAIN notes :
    notes[id].title.t = "str" /\ notes[id].content.t = "str"

\* a note with an empty title and an empty content is stored after requests
\* carrying a null title were answered
C9_Witness ==
  /\ last.op \in {"create", "update"} /\ last.status = 500
  /\ last.body.k = "dict" /\ "title" \in DOMAIN last.body.d
  /\ last.body.d["title"] = JNull
  /\ \E id \in DOMAIN notes :
       notes[id].title = JStr(<<>>) /\ notes[id].content = JStr(<<>>)

C8_EqualAtCreation ==
  [][/\ \A id \in DOMAIN notes' :
          notes'[id].updated_at >= notes'[id].created_at
     /\ (last'.op = "create" /\ last'.status = 201 /\ create_note(last'.body, last'.time))
          => notes'[last'.id].updated_at = notes'[last'.id].created_at
     /\ \A id \in DOMAIN notes \cap DOMAIN notes' :
          notes'[id].created_at = notes[id].created_at]_vars

\* C8 amended: updated_at >= created_at for every stored note, also right
\* after the Create that produced it (where the two need not be equal), and
\* created_at is never changed.
C8_NeverBeforeCreation ==
  [][/\ \A id \in DOMAIN notes' :
          notes'[id].updated_at >= notes'[id].created_at
     /\ \A id \in DOMAIN notes \cap DOMAIN notes' :
          notes'[id].created_at = notes[id].created_at]_vars

\* a note was just created with updated_at later than created_at, beside a
\* note that has been updated after its creation
C8_Witness ==
  /\ last.op = "create" /\ last.status = 201
  /\ notes[last.id].updated_at > notes[last.id].created_at
  /\ \E id \in DOMAIN notes \ {last.id} :
       notes[id].updated_at > notes[id].created_at

(* ------------------------ filter by tags: property --------------------- *)
\* t occurs in s as a run of consecutive characters
IsSubstring(t, s) ==
  \E i \in 0 .. Len(s) - Len(t) : SubSeq(s, i + 1, i + Len(t)) = t

\* C10: the result of Filter by tags is empty when no requested tag is left
\* after merging, trimming and deduplication; otherwise it holds exactly the
\* stored notes whose tag string contains a requested tag as a
\* case-insensitive substring, each once, ordered by updated_at descending.
C10_ExactSubstringMatch ==
  last.op = "filter" =>
    LET tags == Dedupe(Requested(last.query), {})
        r == last.result
    IN IF tags = <<>> THEN r = <<>>
       ELSE /\ {r[i] : i \in DOMAIN r} =
                 {id \in DOMAIN notes :
                    \E i \in DOMAIN tags :
                      IsSubstring(Lower(tags[i]), Lower(notes[id].tags))}
            /\ \A i, j \in DOMAIN r : i # j => r[i] # r[j]
            /\ \A i, j \in DOMAIN r :
                 i < j => notes[r[i]].updated_at >= notes[r[j]].updated_at

(* ------------------------- auth gateway: properties -------------------- *)
NoSharedUsername(us) == \A u, v \in us : u.username = v.username => u = v

\* the step is the answer to a Register request req: the check rejects it,
\* or its commit ends
RegisterAnswers(req) ==
  \/ register_check(req) /\ pending' = pending
  \/ \E p \in pending : p.req = req /\ register_commit(p)

\* C3 as stated: no two stored users share a username, and a Register whose
\* username is that of an existing user answers 400 and leaves the users
\* unchanged, under any interleaving of Register requests.
C3_DuplicateIs400 ==
  [][/\ NoSharedUsername(users')
     /\ \A req \in RegisterReqs :
          (RegisterAnswers(req) /\ UsernameTaken(req.username))
            => (reply'.status = 400 /\ users' = users)]_vars

\* C3 amended: no two stored users share a username; a Register whose
\* username is held by a user when its uniqueness query runs answers 400, one
\* whose username was committed by another request after its query answers
\* 500, and both leave the users unchanged.
C3_DuplicateRejected ==
  [][/\ NoSharedUsername(users')
     /\ \A req \in RegisterReqs :
          /\ (register_check(req) /\ UsernameTaken(req.username))
               => /\ reply'.op = "register" /\ reply'.req = req
                  /\ reply'.status = 400
                  /\ users' = users /\ pending' = pending
          /\ \A p \in pending :
               (p.req = req /\ register_commit(p) /\ UsernameTaken(req.username))
                 => (reply'.status = 500 /\ users' = users)]_vars

\* a Register for a stored username has just been answered 400 while
\* another request for the same username, queried earlier, awaits its commit
C3_Witness ==
  /\ reply.op = "register" /\ reply.status = 400
  /\ ~Falsy(reply.req.password)
  /\ UsernameTaken(reply.req.username)
  /\ \E p \in pending : p.req.username = reply.req.username

\* C4: a Register with username and password, whose username no user has
\* and whose email is omitted or held by no user, is not rejected; its commit
\* answers 201 and adds exactly one user with that username.
C4_FreshRegisterSucceeds ==
  [][\A req \in RegisterReqs :
       LET fresh == /\ ~Falsy(req.username) /\ req.password.t = "str"
                    /\ ~Falsy(req.password)
                    /\ ~UsernameTaken(req.username)
                    /\ \/ req.email.t = "null"
                       \/ \A u \in users : u.email # req.email
       IN /\ (register_check(req) /\ fresh) => pending' # pending
          /\ \A p \in pending :
               (p.req = req /\ register_commit(p) /\ fresh)
                 => /\ reply'.status = 201
                    /\ \E u \in users' \ users :
                         u.username = req.username /\ users' = users \cup {u}]_vars

====
